---- MODULE Spec2Model ----
(***************************************************************************)
(* Validation actions of great_expectations/validation_operators/actions.py *)
(* A Data Context holds a registry of stores; actions are constructed      *)
(* against it and then run on (validation result, identifier, data asset). *)
(* Collaborators (stores, renderer, webhook transport, Data Context        *)
(* capabilities) are recorded as a log of the calls one invocation makes.  *)
(***************************************************************************)
EXTENDS Integers, Sequences, FiniteSets, TLC

\* ---------------------------------------------------------------- bounds
MaxSites == 1      \* longest site-name list given to UpdateDataDocsAction

\* ---------------------------------------------------------------- values
None == "None"

\* identifiers: instances of ValidationResultIdentifier, and a value of
\* another type (a plain string, say)
ValidationResultIdentifier == {"identifier_a", "identifier_b"}
OtherIdentifiers == {"not_an_identifier"}
Identifiers == ValidationResultIdentifier \cup OtherIdentifiers

isinstance_ValidationResultIdentifier(x) == x \in ValidationResultIdentifier

\* validation results: None, or an object carrying .success
PassedResult == "result_passed"
FailedResult == "result_failed"
ValidationResults == {PassedResult, FailedResult}
ResultArgs == ValidationResults \cup {None}

success(result) == result = PassedResult

DataAssets == {"data_asset"}

\* extra keyword arguments given to run(): the set of their names
ExtraKwargs == {{}, {"run_id"}}

\* ---------------------------------------------------------------- outcomes
Return(v) == [kind |-> "return", value |-> v]
Raise(e) == [kind |-> "raise", value |-> e]

\* what one call of _run did: its outcome, the collaborator calls it made in
\* order, and what it printed
Done(o, c, p) == [outcome |-> o, calls |-> c, stdout |-> p]

\* ---------------------------------------------------------------- Data Context
\* data_context.stores: store name -> class of the configured store
stores == [validations_store |-> "ValidationsStore",
           metrics_store |-> "MetricStore"]
StoreNames == DOMAIN stores
validations_store_name == "validations_store"
evaluation_parameter_store == "evaluation_parameter_store"
UnknownStoreName == "no_such_store"
StoreNameArgs == StoreNames \cup {UnknownStoreName, None}

isinstance_MetricStore(name) == stores[name] = "MetricStore"

Absent == "absent"
EmptyStore == [i \in ValidationResultIdentifier |-> Absent]

\* store.set(key, value): upsert
store_set(contents, name, key, value) ==
    [contents EXCEPT ![name] = [@ EXCEPT ![key] = value]]

\* store.get(key)
store_get(contents, name, key) == contents[name][key]

\* renderer.render(result): the payload for that result
render(result) == [rendered |-> result]

\* send_slack_notification(query, slack_webhook): what the transport may answer
SlackResponses == {"Slack notification succeeded.", "Slack notification failed."}

\* instantiate_class_from_config(config=renderer, ...): the instance, or None
RendererConfigs == {"SlackRenderer", "MissingRenderer"}
instantiate_class_from_config(config) ==
    IF config = "SlackRenderer" THEN "SlackRenderer_instance" ELSE None

TypeErr == Raise("TypeError")

\* ---------------------------------------------------------------- site-name lists
\* an optional list argument: None, or a list (possibly empty)
SiteNames == {"local_site", "production_site"}
NoList == [given |-> FALSE, names |-> <<>>]
List(l) == [given |-> TRUE, names |-> l]
SiteLists == UNION {[1..n -> SiteNames] : n \in 0..MaxSites}
SiteListArgs == {NoList} \cup {List(l) : l \in SiteLists}

\* Python truth value of an optional list: None and [] are falsy
truthy(x) == x.given /\ Len(x.names) > 0

\* ---------------------------------------------------------------- _run of each class
\* ValidationAction._run: returns the NotImplementedError class
ValidationAction__run(self, result, ident, data_asset, response) ==
    Done(Return("NotImplementedError"), <<>>, <<>>)

NoOpAction__run(self, result, ident, data_asset, response) ==
    Done(Return(None), <<>>, <<"Happily doing nothing">>)

SlackNotificationAction__run_inverted(self, result, ident, data_asset, response) ==
    IF result = None THEN Done(Return(None), <<>>, <<>>)
    ELSE IF ~isinstance_ValidationResultIdentifier(ident)
    THEN Done(TypeErr, <<>>, <<>>)
    ELSE LET validation_success == success(result) IN
         IF \/ self.notify_on = "all"
            \/ self.notify_on = "success" /\ ~validation_success
            \/ self.notify_on = "failure" /\ validation_success
         THEN LET query == render(result) IN
              Done(Return(response),
                   << [op |-> "render", result |-> result],
                      [op |-> "send_slack_notification", query |-> query,
                       slack_webhook |-> self.slack_webhook,
                       returned |-> response] >>, <<>>)
         ELSE Done(Return(None), <<>>, <<>>)

SlackNotificationAction__run(self, result, ident, data_asset, response) ==
    IF result = None THEN Done(Return(None), <<>>, <<>>)
    ELSE IF ~isinstance_ValidationResultIdentifier(ident)
    THEN Done(TypeErr, <<>>, <<>>)
    ELSE LET validation_success == success(result) IN
         IF \/ self.notify_on = "all"
            \/ self.notify_on = "success" /\ validation_success
            \/ self.notify_on = "failure" /\ ~validation_success
         THEN LET query == render(result) IN
              Done(Return(response),
                   << [op |-> "render", result |-> result],
                      [op |-> "send_slack_notification", query |-> query,
                       slack_webhook |-> self.slack_webhook,
                       returned |-> response] >>, <<>>)
         ELSE Done(Return(None), <<>>, <<>>)

StoreValidationResultAction__run_noNoneGuard(self, result, ident, data_asset, response) ==
    IF ~isinstance_ValidationResultIdentifier(ident)
    THEN Done(TypeErr, <<>>, <<>>)
    ELSE Done(Return(None),
              << [op |-> "set", store |-> self.target_store,
                  key |-> ident, value |-> result] >>, <<>>)

StoreValidationResultAction__run(self, result, ident, data_asset, response) ==
    IF result = None THEN Done(Return(None), <<>>, <<>>)
    ELSE IF ~isinstance_ValidationResultIdentifier(ident)
    THEN Done(TypeErr, <<>>, <<>>)
    ELSE Done(Return(None),
              << [op |-> "set", store |-> self.target_store,
                  key |-> ident, value |-> result] >>, <<>>)

StoreEvaluationParametersAction__run(self, result, ident, data_asset, response) ==
    IF result = None THEN Done(Return(None), <<>>, <<>>)
    ELSE IF ~isinstance_ValidationResultIdentifier(ident)
    THEN Done(TypeErr, <<>>, <<>>)
    ELSE Done(Return(None),
              << [op |-> "store_evaluation_parameters", result |-> result] >>, <<>>)

StoreMetricsAction__run_noTypeCheck(self, result, ident, data_asset, response) ==
    IF result = None THEN Done(Return(None), <<>>, <<>>)
    ELSE Done(Return(None),
              << [op |-> "store_validation_result_metrics",
                  requested_metrics |-> self.requested_metrics,
                  result |-> result,
                  target_store_name |-> self.target_store_name] >>, <<>>)

StoreMetricsAction__run(self, result, ident, data_asset, response) ==
    IF result = None THEN Done(Return(None), <<>>, <<>>)
    ELSE IF ~isinstance_ValidationResultIdentifier(ident)
    THEN Done(TypeErr, <<>>, <<>>)
    ELSE Done(Return(None),
              << [op |-> "store_validation_result_metrics",
                  requested_metrics |-> self.requested_metrics,
                  result |-> result,
                  target_store_name |-> self.target_store_name] >>, <<>>)

UpdateDataDocsAction__run(self, result, ident, data_asset, response) ==
    IF result = None THEN Done(Return(None), <<>>, <<>>)
    ELSE IF ~isinstance_ValidationResultIdentifier(ident)
    THEN Done(TypeErr, <<>>, <<>>)
    ELSE Done(Return(None),
              << [op |-> "build_data_docs", site_names |-> self.site_names,
                  resource_identifiers |-> <<ident>>] >>, <<>>)

\* self._run(...): the method the instance's class defines
Dispatch__run(self, result, ident, data_asset, response) ==
    CASE self.class = "ValidationAction" ->
            ValidationAction__run(self, result, ident, data_asset, response)
      [] self.class = "NoOpAction" ->
            NoOpAction__run(self, result, ident, data_asset, response)
      [] self.class = "SlackNotificationAction" ->
            SlackNotificationAction__run(self, result, ident, data_asset, response)
      [] self.class = "StoreValidationResultAction" ->
            StoreValidationResultAction__run(self, result, ident, data_asset, response)
      [] self.class = "StoreEvaluationParametersAction" ->
            StoreEvaluationParametersAction__run(self, result, ident, data_asset, response)
      [] self.class = "StoreMetricsAction" ->
            StoreMetricsAction__run(self, result, ident, data_asset, response)
      [] self.class = "UpdateDataDocsAction" ->
            UpdateDataDocsAction__run(self, result, ident, data_asset, response)

\* the call self._run(result, ident, data_asset, **kwargs): no _run declares
\* keyword parameters beyond the three, so a non-empty kwargs fails to bind
\* (TypeError) and the body does not execute
Call__run(self, result, ident, data_asset, kwargs, response) ==
    LET call == [self |-> self, result |-> result, ident |-> ident,
                 data_asset |-> data_asset, kwargs |-> kwargs]
        body == IF kwargs # {}
                THEN Done(TypeErr, <<>>, <<>>)
                ELSE Dispatch__run(self, result, ident, data_asset, response)
    IN  [outcome |-> body.outcome, calls |-> body.calls,
         stdout |-> body.stdout, run_calls |-> <<call>>]

ValidationAction_run_dropsKwargs(self, result, ident, data_asset, kwargs, response) ==
    Call__run(self, result, ident, data_asset, {}, response)

\* ValidationAction.run
ValidationAction_run(self, result, ident, data_asset, kwargs, response) ==
    Call__run(self, result, ident, data_asset, kwargs, response)

\* ---------------------------------------------------------------- constructors
NoAction == [class |-> "none"]
Constructed(self, w) == [outcome |-> Return("instance"), self |-> self, warnings |-> w]
Failed(e, w) == [outcome |-> Raise(e), self |-> NoAction, warnings |-> w]

ValidationAction__init__ == Constructed([class |-> "ValidationAction"], <<>>)

NoOpAction__init__ == Constructed([class |-> "NoOpAction"], <<>>)

NotifyOnArgs == {"all", "failure", "success", "never"}
WebhookArgs == {"https://hooks.slack.example/T0", ""}

SlackNotificationAction__init__(renderer, slack_webhook, notify_on) ==
    LET instance == instantiate_class_from_config(renderer) IN
    IF instance = None THEN Failed("ClassInstantiationError", <<>>)
    ELSE IF slack_webhook = "" THEN Failed("AssertionError", <<>>)
    ELSE Constructed([class |-> "SlackNotificationAction", renderer |-> instance,
                      slack_webhook |-> slack_webhook, notify_on |-> notify_on], <<>>)

StoreValidationResultAction__init__ignoresName(target_store_name) ==
    IF target_store_name = None \/ target_store_name \in StoreNames
    THEN Constructed([class |-> "StoreValidationResultAction",
                      target_store |-> validations_store_name], <<>>)
    ELSE Failed("KeyError", <<>>)

StoreValidationResultAction__init__(target_store_name) ==
    IF target_store_name = None
    THEN Constructed([class |-> "StoreValidationResultAction",
                      target_store |-> validations_store_name], <<>>)
    ELSE IF target_store_name \in StoreNames
    THEN Constructed([class |-> "StoreValidationResultAction",
                      target_store |-> target_store_name], <<>>)
    ELSE Failed("KeyError", <<>>)

StoreEvaluationParametersAction__init__defers(target_store_name) ==
    IF target_store_name \in StoreNames
    THEN Constructed([class |-> "StoreEvaluationParametersAction",
                      target_store |-> target_store_name], <<>>)
    ELSE Constructed([class |-> "StoreEvaluationParametersAction",
                      target_store |-> evaluation_parameter_store], <<>>)

StoreEvaluationParametersAction__init__(target_store_name) ==
    IF target_store_name = None
    THEN Constructed([class |-> "StoreEvaluationParametersAction",
                      target_store |-> evaluation_parameter_store], <<>>)
    ELSE IF target_store_name \in StoreNames
    THEN Constructed([class |-> "StoreEvaluationParametersAction",
                      target_store |-> target_store_name], <<>>)
    ELSE Failed("KeyError", <<>>)

RequestedMetrics == {"requested_metrics"}

StoreMetricsAction__init__noStoreTypeCheck(requested_metrics, target_store_name) ==
    IF target_store_name \notin StoreNames
    THEN Failed("DataContextError", <<>>)
    ELSE Constructed([class |-> "StoreMetricsAction",
                      requested_metrics |-> requested_metrics,
                      target_store_name |-> target_store_name], <<>>)

StoreMetricsAction__init__(requested_metrics, target_store_name) ==
    IF target_store_name \notin StoreNames
    THEN Failed("DataContextError", <<>>)
    ELSE IF ~isinstance_MetricStore(target_store_name)
    THEN Failed("DataContextError", <<>>)
    ELSE Constructed([class |-> "StoreMetricsAction",
                      requested_metrics |-> requested_metrics,
                      target_store_name |-> target_store_name], <<>>)

UpdateDataDocsAction__init__(site_names, target_site_names) ==
    IF truthy(target_site_names)
    THEN IF truthy(site_names)
         THEN Failed("DataContextError", <<"DeprecationWarning">>)
         ELSE Constructed([class |-> "UpdateDataDocsAction",
                           site_names |-> target_site_names],
                          <<"DeprecationWarning">>)
    ELSE Constructed([class |-> "UpdateDataDocsAction",
                      site_names |-> site_names], <<>>)

\* ---------------------------------------------------------------- state
VARIABLES
    action,          \* the action instance the caller holds (NoAction before any)
    config,          \* the constructor call that built it
    store_contents,  \* store name -> identifier -> stored result
    last_op,         \* the last constructor call or run() call, with its arguments
    outcome,         \* how that call ended: Return(value) or Raise(error)
    calls,           \* collaborator calls made during that call, in order
    run_calls,       \* calls of self._run made during that call
    warnings,        \* warnings emitted during that call
    stdout,          \* lines printed during that call
    most_recent,     \* history: per store and identifier, the result of the most
                     \* recent StoreValidationResultAction run that returned
    replaced         \* history: that call overwrote a different stored result

vars == <<action, config, store_contents, last_op, outcome, calls, run_calls,
          warnings, stdout, most_recent, replaced>>

Init ==
    /\ action = NoAction
    /\ config = [op |-> "none"]
    /\ store_contents = [n \in StoreNames |-> EmptyStore]
    /\ last_op = [op |-> "none"]
    /\ outcome = Return(None)
    /\ calls = <<>>
    /\ run_calls = <<>>
    /\ warnings = <<>>
    /\ stdout = <<>>
    /\ most_recent = [n \in StoreNames |-> EmptyStore]
    /\ replaced = FALSE

\* the rest of a constructor call that ended as r: the caller holds the new
\* instance if it returned
Construct(r) ==
    /\ outcome' = r.outcome
    /\ warnings' = r.warnings
    /\ calls' = <<>>
    /\ run_calls' = <<>>
    /\ stdout' = <<>>
    /\ IF r.outcome.kind = "return"
       THEN action' = r.self /\ config' = last_op'
       ELSE UNCHANGED <<action, config>>
    /\ replaced' = FALSE
    /\ UNCHANGED <<store_contents, most_recent>>

ConstructValidationAction ==
    /\ last_op' = [op |-> "construct", class |-> "ValidationAction"]
    /\ Construct(ValidationAction__init__)

ConstructNoOpAction ==
    /\ last_op' = [op |-> "construct", class |-> "NoOpAction"]
    /\ Construct(NoOpAction__init__)

ConstructSlackNotificationAction ==
    \E renderer \in RendererConfigs, slack_webhook \in WebhookArgs,
       notify_on \in NotifyOnArgs :
        /\ last_op' = [op |-> "construct", class |-> "SlackNotificationAction",
                       renderer |-> renderer, slack_webhook |-> slack_webhook,
                       notify_on |-> notify_on]
        /\ Construct(SlackNotificationAction__init__(renderer, slack_webhook,
                                                     notify_on))

ConstructStoreValidationResultAction ==
    \E target_store_name \in StoreNameArgs :
        /\ last_op' = [op |-> "construct", class |-> "StoreValidationResultAction",
                       target_store_name |-> target_store_name]
        /\ Construct(StoreValidationResultAction__init__(target_store_name))

ConstructStoreEvaluationParametersAction ==
    \E target_store_name \in StoreNameArgs :
        /\ last_op' = [op |-> "construct",
                       class |-> "StoreEvaluationParametersAction",
                       target_store_name |-> target_store_name]
        /\ Construct(StoreEvaluationParametersAction__init__(target_store_name))

ConstructStoreMetricsAction ==
    \E requested_metrics \in RequestedMetrics, target_store_name \in StoreNameArgs :
        /\ last_op' = [op |-> "construct", class |-> "StoreMetricsAction",
                       requested_metrics |-> requested_metrics,
                       target_store_name |-> target_store_name]
        /\ Construct(StoreMetricsAction__init__(requested_metrics,
                                                target_store_name))

ConstructUpdateDataDocsAction ==
    \E site_names \in SiteListArgs, target_site_names \in SiteListArgs :
        /\ last_op' = [op |-> "construct", class |-> "UpdateDataDocsAction",
                       site_names |-> site_names,
                       target_site_names |-> target_site_names]
        /\ Construct(UpdateDataDocsAction__init__(site_names, target_site_names))

\* the effect of the collaborator calls on the stores: only set() writes
RECURSIVE ApplyCalls(_, _)
ApplyCalls(contents, cs) ==
    IF cs = <<>> THEN contents
    ELSE LET c == Head(cs)
             next == IF c.op = "set"
                     THEN store_set(contents, c.store, c.key, c.value)
                     ELSE contents
         IN  ApplyCalls(next, Tail(cs))

\* the store a StoreValidationResultAction built from cfg is documented to write
ConfiguredStore(cfg) ==
    IF cfg.target_store_name = None THEN validations_store_name
    ELSE cfg.target_store_name

\* what the webhook transport may answer self, where self has a transport
TransportAnswers(self) ==
    IF self.class = "SlackNotificationAction" THEN SlackResponses ELSE {None}

\* action.run(result, ident, data_asset, **kwargs)
Run ==
    /\ action # NoAction
    /\ \E result \in ResultArgs, ident \in Identifiers, data_asset \in DataAssets,
          kwargs \in ExtraKwargs, response \in TransportAnswers(action) :
         LET r == ValidationAction_run(action, result, ident, data_asset,
                                       kwargs, response)
         IN  /\ last_op' = [op |-> "run", result |-> result, ident |-> ident,
                            data_asset |-> data_asset, kwargs |-> kwargs]
             /\ outcome' = r.outcome
             /\ calls' = r.calls
             /\ run_calls' = r.run_calls
             /\ stdout' = r.stdout
             /\ warnings' = <<>>
             /\ store_contents' = ApplyCalls(store_contents, r.calls)
             /\ most_recent' =
                  IF /\ action.class = "StoreValidationResultAction"
                     /\ result # None
                     /\ r.outcome.kind = "return"
                  THEN [most_recent EXCEPT ![ConfiguredStore(config)][ident] = result]
                  ELSE most_recent
             /\ replaced' =
                  \E n \in StoreNames, i \in ValidationResultIdentifier :
                      /\ store_contents[n][i] # Absent
                      /\ ApplyCalls(store_contents, r.calls)[n][i] # store_contents[n][i]
             /\ UNCHANGED <<action, config>>

Next ==
    \/ ConstructValidationAction
    \/ ConstructNoOpAction
    \/ ConstructSlackNotificationAction
    \/ ConstructStoreValidationResultAction
    \/ ConstructStoreEvaluationParametersAction
    \/ ConstructStoreMetricsAction
    \/ ConstructUpdateDataDocsAction
    \/ Run

Spec == Init /\ [][Next]_vars

\* ---------------------------------------------------------------- properties
IsRun == last_op.op = "run"
IsConstruct(class) == last_op.op = "construct" /\ last_op.class = class

\* the catalogue of concrete effects
EffectClasses ==
    {"NoOpAction", "SlackNotificationAction", "StoreValidationResultAction",
     "StoreEvaluationParametersAction", "StoreMetricsAction",
     "UpdateDataDocsAction"}

\* the effects that check the identifier
PersistingClasses ==
    {"SlackNotificationAction", "StoreValidationResultAction",
     "StoreEvaluationParametersAction", "StoreMetricsAction",
     "UpdateDataDocsAction"}

\* C1: run of any of the six effects with a None result makes no collaborator
\* call, whatever the identifier, and (called with the three arguments)
\* returns None.
C1_NoneResultTouchesNothing ==
    (IsRun /\ action.class \in EffectClasses /\ last_op.result = None) =>
        /\ calls = <<>>
        /\ last_op.kwargs = {} => outcome = Return(None)

C1_Witness ==
    /\ IsRun
    /\ action.class = "StoreValidationResultAction"
    /\ last_op.result = None
    /\ last_op.ident \in OtherIdentifiers
    /\ last_op.kwargs = {}
    /\ outcome = Return(None)
    /\ calls = <<>>

\* C2 as stated: for every effect, run with an identifier that is not a
\* ValidationResultIdentifier raises TypeError before any collaborator call.
C2_Original ==
    (IsRun /\ action.class \in EffectClasses
           /\ ~isinstance_ValidationResultIdentifier(last_op.ident)) =>
        /\ outcome = TypeErr
        /\ calls = <<>>

\* C2 amended: the five effects other than the no-op raise TypeError, with no
\* collaborator call, when the result is not None and the identifier is not a
\* ValidationResultIdentifier; the no-op never checks the identifier and
\* returns None.
C2_TypeErrorBeforeCollaborators ==
    /\ (IsRun /\ action.class \in PersistingClasses
              /\ last_op.result # None
              /\ ~isinstance_ValidationResultIdentifier(last_op.ident)) =>
          /\ outcome = TypeErr
          /\ calls = <<>>
    /\ (IsRun /\ action.class = "NoOpAction" /\ last_op.kwargs = {}) =>
          /\ outcome = Return(None)
          /\ calls = <<>>

C2_Witness ==
    /\ IsRun
    /\ action.class = "StoreMetricsAction"
    /\ last_op.result = PassedResult
    /\ last_op.ident \in OtherIdentifiers
    /\ last_op.kwargs = {}
    /\ outcome = TypeErr
    /\ calls = <<>>

\* C3: a SlackNotificationAction run on a result that is not None, with a
\* ValidationResultIdentifier, renders then sends exactly when notify_on is
\* "all", or "success" and the result succeeded, or "failure" and it did not;
\* it then returns what the transport returned; otherwise nothing is rendered
\* or sent and it returns None.
C3_NotifyOnPolicy ==
    (/\ IsRun
     /\ action.class = "SlackNotificationAction"
     /\ action.notify_on \in {"all", "success", "failure"}
     /\ last_op.result # None
     /\ isinstance_ValidationResultIdentifier(last_op.ident)
     /\ last_op.kwargs = {}) =>
        LET fires == \/ action.notify_on = "all"
                     \/ action.notify_on = "success" /\ last_op.result = PassedResult
                     \/ action.notify_on = "failure" /\ last_op.result = FailedResult
        IN  IF fires
            THEN /\ Len(calls) = 2
                 /\ calls[1] = [op |-> "render", result |-> last_op.result]
                 /\ calls[2].op = "send_slack_notification"
                 /\ calls[2].query = render(last_op.result)
                 /\ calls[2].slack_webhook = action.slack_webhook
                 /\ outcome = Return(calls[2].returned)
            ELSE /\ calls = <<>>
                 /\ outcome = Return(None)

C3_Witness ==
    /\ IsRun
    /\ action.class = "SlackNotificationAction"
    /\ action.notify_on = "failure"
    /\ last_op.result = PassedResult
    /\ isinstance_ValidationResultIdentifier(last_op.ident)
    /\ last_op.kwargs = {}
    /\ calls = <<>>
    /\ outcome = Return(None)

\* C4: in every store, get(id) is the result of the most recent
\* StoreValidationResultAction run that returned for that store and id (the
\* store named at construction, the default validations store when the name
\* is None); entries no such run addressed are as they were.
C4_StoreRoundTrip ==
    \A n \in StoreNames, i \in ValidationResultIdentifier :
        store_get(store_contents, n, i) = most_recent[n][i]

C4_Witness ==
    /\ IsRun
    /\ action.class = "StoreValidationResultAction"
    /\ config.target_store_name = None
    /\ outcome = Return(None)
    /\ replaced
    /\ isinstance_ValidationResultIdentifier(last_op.ident)
    /\ store_get(store_contents, validations_store_name, last_op.ident) = last_op.result
    /\ \E i \in ValidationResultIdentifier \ {last_op.ident} :
           store_get(store_contents, validations_store_name, i) # Absent

\* C5: StoreMetricsAction's constructor raises DataContextError for a store
\* name missing from the registry and for a store that is not a MetricStore;
\* so every StoreMetricsAction that exists names a registered MetricStore, and
\* its run never raises DataContextError.
C5_MetricStoreCheckedAtConstruction ==
    /\ (IsConstruct("StoreMetricsAction")
          /\ last_op.target_store_name \notin StoreNames) =>
            outcome = Raise("DataContextError")
    /\ (IsConstruct("StoreMetricsAction")
          /\ last_op.target_store_name \in StoreNames
          /\ ~isinstance_MetricStore(last_op.target_store_name)) =>
            outcome = Raise("DataContextError")
    /\ action.class = "StoreMetricsAction" =>
          /\ action.target_store_name \in StoreNames
          /\ isinstance_MetricStore(action.target_store_name)
    /\ (IsRun /\ action.class = "StoreMetricsAction") =>
          outcome # Raise("DataContextError")

C5_Witness ==
    /\ IsConstruct("StoreMetricsAction")
    /\ last_op.target_store_name = validations_store_name
    /\ outcome = Raise("DataContextError")

\* C6 as stated: giving both site_names and target_site_names raises
\* DataContextError; giving only target_site_names = V constructs, warns of
\* the deprecation, and every run asks build_data_docs for what an action
\* constructed with site_names = V asks.
C6_DeprecatedAliasEquivalent ==
    /\ (IsConstruct("UpdateDataDocsAction")
          /\ last_op.site_names.given /\ last_op.target_site_names.given) =>
            outcome = Raise("DataContextError")
    /\ (IsConstruct("UpdateDataDocsAction")
          /\ ~last_op.site_names.given /\ last_op.target_site_names.given) =>
            /\ outcome.kind = "return"
            /\ \E k \in 1..Len(warnings) : warnings[k] = "DeprecationWarning"
    /\ (IsRun /\ action.class = "UpdateDataDocsAction"
          /\ ~config.site_names.given /\ config.target_site_names.given) =>
            calls = Call__run(
                      UpdateDataDocsAction__init__(config.target_site_names, NoList).self,
                      last_op.result, last_op.ident, last_op.data_asset,
                      last_op.kwargs, None).calls

\* C7 as stated: StoreValidationResultAction constructed with a store name
\* missing from the registry fails with the configuration error
\* (DataContextError).
C7_UnknownStoreIsConfigurationError ==
    (IsConstruct("StoreValidationResultAction")
       /\ last_op.target_store_name \notin StoreNames \cup {None}) =>
        outcome = Raise("DataContextError")

C9_RunDelegates ==
    IsRun =>
        /\ run_calls = << [self |-> action, result |-> last_op.result,
                           ident |-> last_op.ident,
                           data_asset |-> last_op.data_asset,
                           kwargs |-> last_op.kwargs] >>
        /\ \E response \in TransportAnswers(action) :
             LET c == Call__run(action, last_op.result, last_op.ident,
                                last_op.data_asset, last_op.kwargs, response)
             IN  outcome = c.outcome /\ calls = c.calls

C9_Witness ==
    /\ IsRun
    /\ action.class = "StoreValidationResultAction"
    /\ last_op.kwargs # {}
    /\ last_op.result # None
    /\ Len(run_calls) = 1
    /\ run_calls[1].kwargs = last_op.kwargs
    /\ outcome = TypeErr
    /\ calls = <<>>

\* C10 as stated: run on an action that does not override _run ends in an
\* error, never in a returned value.
C10_BaseRunSignalsError ==
    (IsRun /\ action.class = "ValidationAction") => outcome.kind = "raise"
====
